---------------------------- MODULE Spec2Model ----------------------------
(* Multi-agent research pipeline: PlannerAgent (single pass),             *)
(* PlannerAgentDeepResearch (one pass per sub-question),                  *)
(* DecompositionAgent, the collectors' run boundary and the synthesizers. *)
EXTENDS Integers, Sequences, FiniteSets, TLC

(* ---------------------------------------------------------------------- *)
(* Bounds of the model                                                    *)
(* ---------------------------------------------------------------------- *)
\* most records one upstream search hands back in the model
MaxRet == 2
\* longest language-model reply (in tokens) given to the decomposer
MaxReplyLen == 4
\* longest language-model reply (in lines) given to the strategy analyzer
MaxLines == 2
MaxSynthLen == 3
MaxWords == 7
RequestedHigh == 12
max_iterations == 2
MaxPlanLen == 3

(* ---------------------------------------------------------------------- *)
(* Program constants                                                      *)
(* ---------------------------------------------------------------------- *)
\* max_sources is validated to 1..10 by the request surface
MinBudget == 1
MaxBudget == 10

\* Python's None; no question string of the model is spelled like this
None == "None"
user_question == "Q"
NoUrl == ""
Url == "http://u"

NoSourcesMsg == "No relevant sources were found to answer your question."
SynthesisErrorMsg == "Error during synthesis: "

Max(a, b) == IF a >= b THEN a ELSE b
Min(a, b) == IF a <= b THEN a ELSE b

RECURSIVE SumSeq(_)
SumSeq(s) == IF s = <<>> THEN 0 ELSE Head(s) + SumSeq(Tail(s))

\* s[a..b) as a Python slice with 0-based bounds; empty when b <= a
Slice(s, a, b) == IF b <= a THEN <<>> ELSE SubSeq(s, a + 1, Min(b, Len(s)))

(* ---------------------------------------------------------------------- *)
(* DecompositionAgent.decompose_question                                  *)
(* A reply is a sequence of tokens: "{", "}", free text "x", or one       *)
(* member of a JSON object ("key": value).                                *)
(* ---------------------------------------------------------------------- *)
LB == "{"
RB == "}"
X == "x"
M_L1 == "\"sub_questions\": [\"q1\"]"
M_L2 == "\"sub_questions\": [\"q1\", \"q2\"]"
M_L2dup == "\"sub_questions\": [\"q1\", \"q1\"]"
M_L2null == "\"sub_questions\": [\"q1\", null]"
M_L0 == "\"sub_questions\": []"
M_L6 == "\"sub_questions\": [\"q1\", \"q2\", \"q1\", \"q2\", \"q1\", \"q2\"]"
M_null == "\"sub_questions\": null"
M_num == "\"sub_questions\": 7"
M_other == "\"questions\": [\"q1\"]"

Members == {M_L1, M_L2, M_L2dup, M_L2null, M_L0, M_L6, M_null, M_num, M_other}
Tokens == {LB, RB, X} \cup Members

\* a JSON value: kind is "list", "null" or "num"; items are the list's entries
ListVal(items) == [kind |-> "list", items |-> items]
NullVal == [kind |-> "null", items |-> <<>>]
NumVal == [kind |-> "num", items |-> <<>>]

MemberKey(m) == IF m = M_other THEN "questions" ELSE "sub_questions"
MemberValue(m) ==
    CASE m = M_L1 -> ListVal(<<"q1">>)
      [] m = M_L2 -> ListVal(<<"q1", "q2">>)
      [] m = M_L2dup -> ListVal(<<"q1", "q1">>)
      [] m = M_L2null -> ListVal(<<"q1", None>>)
      [] m = M_L0 -> ListVal(<< >>)
      [] m = M_L6 -> ListVal(<<"q1", "q2", "q1", "q2", "q1", "q2">>)
      [] m = M_null -> NullVal
      [] m = M_num -> NumVal
      [] OTHER -> ListVal(<<"q1">>)

\* str.find: 0-based index of the first occurrence, -1 when there is none
find(s, t) ==
    IF \E k \in 1..Len(s) : s[k] = t
    THEN (CHOOSE k \in 1..Len(s) : s[k] = t /\ \A j \in 1..(k - 1) : s[j] # t) - 1
    ELSE -1

\* str.rfind: 0-based index of the last occurrence, -1 when there is none
rfind(s, t) ==
    IF \E k \in 1..Len(s) : s[k] = t
    THEN (CHOOSE k \in 1..Len(s) : s[k] = t /\ \A j \in (k + 1)..Len(s) : s[j] # t) - 1
    ELSE -1

\* json.loads accepts the text iff it is one object: "{", members, "}"
json_valid(s) ==
    /\ Len(s) >= 2
    /\ s[1] = LB
    /\ s[Len(s)] = RB
    /\ \A k \in 2..(Len(s) - 1) : s[k] \in Members

\* dict.get on the parsed object: the last member with the key wins
json_has(s, key) == \E k \in 2..(Len(s) - 1) : MemberKey(s[k]) = key
json_get(s, key, default) ==
    IF json_has(s, key)
    THEN MemberValue(s[CHOOSE k \in 2..(Len(s) - 1) :
                          /\ MemberKey(s[k]) = key
                          /\ \A j \in (k + 1)..(Len(s) - 1) : MemberKey(s[j]) # key])
    ELSE default

decompose_fallback_empty(question) == ListVal(<< >>)

\* the except branch of decompose_question
decompose_fallback(question) == ListVal(<<question>>)

\* llm = [ok |-> the model call returned, text |-> its reply]
decompose_question(question, llm) ==
    IF ~llm.ok THEN decompose_fallback(question)
    ELSE LET response_text == llm.text
             json_start == find(response_text, LB)
             json_end == rfind(response_text, RB) + 1
         IN  IF json_start # -1 /\ json_end # -1
             THEN LET clean_json_str == Slice(response_text, json_start, json_end)
                  IN  IF json_valid(clean_json_str)
                      THEN json_get(clean_json_str, "sub_questions", ListVal(<<question>>))
                      ELSE decompose_fallback(question)
             ELSE ListVal(<<question>>)

(* ---------------------------------------------------------------------- *)
(* analyze_query (PlannerAgent and PlannerAgentDeepResearch)              *)
(* The reply is a sequence of lines; a line holding ':' is the pair       *)
(* <<text before the first ':', text after it>>, any other line is <<t>>. *)
(* ---------------------------------------------------------------------- *)
RawKeys == {"ArXiv", " arxiv", "YouTube", "Webpage", "Complexity", "Recency",
            "Reasoning", "Note"}
RawValues == {" yes", " Yes ", " no", " maybe", " complex", " high"}
AnalysisLines == (RawKeys \X RawValues) \cup {<<"no colon here">>}

strip_only(t) ==
    CASE t = " arxiv" -> "arxiv"
      [] t = " yes" -> "yes"
      [] t = " Yes " -> "Yes"
      [] t = " no" -> "no"
      [] t = " maybe" -> "maybe"
      [] t = " complex" -> "complex"
      [] t = " high" -> "high"
      [] OTHER -> t

\* str.strip().lower() on the texts of the model
strip_lower(t) ==
    CASE t = "ArXiv" -> "arxiv"
      [] t = " arxiv" -> "arxiv"
      [] t = "YouTube" -> "youtube"
      [] t = "Webpage" -> "webpage"
      [] t = "Complexity" -> "complexity"
      [] t = "Recency" -> "recency"
      [] t = "Reasoning" -> "reasoning"
      [] t = "Note" -> "note"
      [] t = " yes" -> "yes"
      [] t = " Yes " -> "yes"
      [] t = " no" -> "no"
      [] t = " maybe" -> "maybe"
      [] t = " complex" -> "complex"
      [] t = " high" -> "high"
      [] OTHER -> t

\* the dict built by the parsing loop, read with dict.get(key, default):
\* only lines with ':' are stored, a later line overwrites an earlier one
analysis_has(lines, key) ==
    \E k \in 1..Len(lines) : Len(lines[k]) = 2 /\ strip_lower(lines[k][1]) = key
analysis_get(lines, key, default) ==
    IF analysis_has(lines, key)
    THEN strip_lower(lines[CHOOSE k \in 1..Len(lines) :
                        /\ Len(lines[k]) = 2
                        /\ strip_lower(lines[k][1]) = key
                        /\ \A j \in (k + 1)..Len(lines) :
                              ~(Len(lines[j]) = 2 /\ strip_lower(lines[j][1]) = key)][2])
    ELSE default

bool_always(url) == TRUE

\* Python's bool(webpage_url)
bool(url) == url # ""

\* the strategy of the except branch
default_strategy(webpage_url_) ==
    [use_arxiv |-> TRUE, use_youtube |-> TRUE, use_webpage |-> bool(webpage_url_),
     complexity |-> "medium", recency |-> "medium",
     reasoning |-> "Default comprehensive research approach"]

\* llm = [ok |-> the model call returned, text |-> the reply's lines]
analyze_query(webpage_url_, llm) ==
    IF ~llm.ok THEN default_strategy(webpage_url_)
    ELSE LET analysis_text == llm.text
         IN  [use_arxiv |-> analysis_get(analysis_text, "arxiv", "yes") = "yes",
              use_youtube |-> analysis_get(analysis_text, "youtube", "yes") = "yes",
              use_webpage |-> analysis_get(analysis_text, "webpage", "yes") = "yes"
                                /\ bool(webpage_url_),
              complexity |-> analysis_get(analysis_text, "complexity", "medium"),
              recency |-> analysis_get(analysis_text, "recency", "medium"),
              reasoning |-> analysis_get(analysis_text, "reasoning",
                                         "Standard research approach")]

(* ---------------------------------------------------------------------- *)
(* execute_research_plan: source distribution                             *)
(* ---------------------------------------------------------------------- *)
Bit(b) == IF b THEN 1 ELSE 0

\* sum([use_arxiv, use_youtube, use_webpage])
count_active(st) == Bit(st.use_arxiv) + Bit(st.use_youtube) + Bit(st.use_webpage)

apply_default_arxiv_only(st) ==
    IF count_active(st) = 0 THEN [st EXCEPT !.use_arxiv = TRUE] ELSE st

\* the strategy after the default rule (the dict is changed in place)
apply_default_pair(st) ==
    IF count_active(st) = 0
    THEN [st EXCEPT !.use_arxiv = TRUE, !.use_youtube = TRUE]
    ELSE st

sources_per_sq_divided(kwargs_max_sources, n_sub_questions) ==
    Max(1, kwargs_max_sources \div n_sub_questions)

\* run: sources_per_sq = kwargs.get('max_sources', 5), the same for every
\* sub-question, copied into sub_q_kwargs['max_sources']
sources_per_sq_of(kwargs_max_sources, n_sub_questions) == kwargs_max_sources

active_agents_all(st) == 3

active_agents_of(st) == IF count_active(st) = 0 THEN 2 ELSE count_active(st)

sources_per_agent_nomax(budget, active) == budget \div active

sources_per_agent_of(budget, active) == Max(1, budget \div active)

(* ---------------------------------------------------------------------- *)
(* Collectors at the run boundary                                         *)
(* ---------------------------------------------------------------------- *)
\* the records one collector returns in one pass
Records(type, pass, n) ==
    [k \in 1..n |-> [source_type |-> type, pass |-> pass, idx |-> k]]

Returned(type, pass, n) == [raised |-> FALSE, sources |-> Records(type, pass, n)]
Raised == [raised |-> TRUE, sources |-> << >>]

\* what can go wrong around one collector run, and how many items the
\* upstream has for the query
ArxivFaults == {"none", "query_llm", "network", "parse"}
YoutubeFaults == {"none", "query_llm", "client", "network", "parse", "transcript"}
WebpageFaults == {"none", "import", "crawl_raises", "crawl_empty", "loop_running"}
Envs(faults) == [fault : faults, n : 0..MaxRet]
ArxivEnvs == Envs(ArxivFaults)
YoutubeEnvs == Envs(YoutubeFaults)
WebpageEnvs == Envs(WebpageFaults)

\* BaseAgent.run for ArxivAgent: generate_search_query falls back to keywords
\* when the model call fails; search and _parse_arxiv_xml catch every error
\* and return []
arxiv_run(pass, max_results, env) ==
    IF env.fault \in {"network", "parse"}
    THEN Returned("arxiv", pass, 0)
    ELSE Returned("arxiv", pass, Min(env.n, max_results))

\* BaseAgent.run for YoutubeAgent: search builds the API client before its try
\* block; the request, the item parsing and the transcript fetch are guarded
\* (a failed transcript leaves the record in place with transcript None)
youtube_run(pass, max_results, env) ==
    IF env.fault = "client" THEN Raised
    ELSE IF env.fault \in {"network", "parse"}
         THEN Returned("youtube", pass, 0)
         ELSE Returned("youtube", pass, Min(env.n, max_results))

\* strings on which query.startswith(("http://", "https://")) holds
UrlLike == {Url, "https://v"}
\* what WebpageAgent.search can be given as query
SearchQueries == {"", "graph question"} \cup UrlLike

Unavailable == "crawl4ai not available"
Unreadable == "No readable content extracted"
Page == "page text"

NotFetched == [raised |-> TRUE, record |-> [title |-> "", content |-> "", link |-> "",
                                            source_type |-> ""]]

\* WebpageAgent._fetch_one: a placeholder record when crawl4ai cannot be
\* imported; the crawl, where only RuntimeError is caught (the fallback on
\* another loop gives the page or None); then the first non-empty text of
\* the result or the second placeholder. env.n = 0 is a page without text.
fetch_one(url, env) ==
    IF env.fault = "import"
    THEN [raised |-> FALSE,
          record |-> [title |-> url, content |-> Unavailable, link |-> url,
                      source_type |-> "webpage"]]
    ELSE IF env.fault = "crawl_raises" THEN NotFetched
    ELSE LET content == IF env.fault = "crawl_empty" \/ env.n = 0
                        THEN Unreadable ELSE Page
         IN  [raised |-> FALSE,
              record |-> [title |-> IF content = Page THEN "page title" ELSE url,
                          content |-> content, link |-> url,
                          source_type |-> "webpage"]]

NoFound == [asked |-> FALSE, raised |-> FALSE, records |-> << >>]

webpage_search_only_fetched(query, url, env) ==
    LET given == IF url # NoUrl THEN url
                 ELSE IF query \in UrlLike THEN query ELSE NoUrl
        one == fetch_one(given, env)
    IN  IF given # NoUrl /\ one.raised
        THEN [asked |-> TRUE, raised |-> TRUE, records |-> << >>]
        ELSE IF given # NoUrl /\ one.record.content = Page
        THEN [asked |-> TRUE, raised |-> FALSE, records |-> <<one.record>>]
        ELSE [asked |-> TRUE, raised |-> FALSE, records |-> << >>]

\* WebpageAgent.search(query, url=url) without urls: the url of the kwargs, or
\* the query when it looks like a URL; [self._fetch_one(url)], or []
webpage_search(query, url, env) ==
    LET given == IF url # NoUrl THEN url
                 ELSE IF query \in UrlLike THEN query ELSE NoUrl
        one == fetch_one(given, env)
    IN  IF given # NoUrl
        THEN IF one.raised
             THEN [asked |-> TRUE, raised |-> TRUE, records |-> << >>]
             ELSE [asked |-> TRUE, raised |-> FALSE, records |-> <<one.record>>]
        ELSE [asked |-> TRUE, raised |-> FALSE, records |-> << >>]

\* WebpageAgent.run with a url: sources = self.search(url or "", url=url,
\* urls=urls); without sources the synthesizer is not asked; the sources are
\* returned as search gave them
webpage_run(pass, env) ==
    LET found == webpage_search(Url, Url, env)
    IN  IF found.raised THEN Raised
        ELSE Returned("webpage", pass, Len(found.records))

ArxivRunOutcomes(pass, max_results) ==
    {arxiv_run(pass, max_results, env) : env \in ArxivEnvs}

YoutubeRunOutcomes(pass, max_results) ==
    {youtube_run(pass, max_results, env) : env \in YoutubeEnvs}

WebpageRunOutcomes(pass) == {webpage_run(pass, env) : env \in WebpageEnvs}

extend_front(acc, new) == new \o acc

\* list.extend
extend(acc, new) == acc \o new

try_run_propagate(out, acc) ==
    IF out.raised THEN [sources |-> acc, raised |-> TRUE]
    ELSE [sources |-> extend(acc, out.sources), raised |-> FALSE]

\* try: result = agent.run(...); sources.extend(result['sources'])
\* except Exception: print(...)
try_run(out, acc) ==
    IF out.raised THEN [sources |-> acc, raised |-> FALSE]
    ELSE [sources |-> extend(acc, out.sources), raised |-> FALSE]

Priority(type) ==
    CASE type = "arxiv" -> 1
      [] type = "youtube" -> 2
      [] type = "webpage" -> 3

(* ---------------------------------------------------------------------- *)
(* SynthesizerAgent.synthesize / SynthesizerAgentDeepResearch.synthesize  *)
(* ---------------------------------------------------------------------- *)
\* the loop over enumerate(all_sources, 1): only 'arxiv' and 'youtube'
\* records add a context line "Source [i]" and a list item id="source-i"
render_dense(all_sources_, i_) ==
    LET kept == SelectSeq(SubSeq(all_sources_, i_, Len(all_sources_)),
                          LAMBDA r : r.source_type \in {"arxiv", "youtube"})
    IN  [k \in 1..Len(kept) |-> [id |-> k, source |-> kept[k]]]

RECURSIVE render(_, _)
render(all_sources_, i_) ==
    IF i_ > Len(all_sources_) THEN << >>
    ELSE IF all_sources_[i_].source_type \in {"arxiv", "youtube"}
         THEN <<[id |-> i_, source |-> all_sources_[i_]]>> \o render(all_sources_, i_ + 1)
         ELSE render(all_sources_, i_ + 1)

synthesize_nonempty(all_sources_, llm_ok) ==
    LET rendered == render(all_sources_, 1)
    IN  [context |-> rendered,
         source_list_html |-> rendered,
         llm_calls |-> 1,
         result |-> IF llm_ok
                    THEN [kind |-> "report", text |-> "report_text",
                          source_list |-> rendered]
                    ELSE [kind |-> "error", text |-> SynthesisErrorMsg,
                          source_list |-> << >>]]

synthesize_unguarded(all_sources_, llm_ok) == synthesize_nonempty(all_sources_, llm_ok)

synthesize(all_sources_, llm_ok) ==
    IF all_sources_ = << >>
    THEN [context |-> << >>, source_list_html |-> << >>, llm_calls |-> 0,
          result |-> [kind |-> "no_sources", text |-> NoSourcesMsg,
                      source_list |-> << >>]]
    ELSE synthesize_nonempty(all_sources_, llm_ok)

\* tools.py tool_synthesis: both loops run over enumerate(papers, 1); the
\* list is built after the model call and appended to whatever it returned
tool_synthesis(papers, llm) ==
    LET numbered == [k \in 1..Len(papers) |-> [id |-> k, source |-> papers[k]]]
    IN  IF papers = << >>
        THEN [context |-> << >>, source_list_html |-> << >>, llm_calls |-> 0,
              result |-> [kind |-> "error", text |-> "Error: No papers provided.",
                          source_list |-> << >>]]
        ELSE IF ~llm.ok
        THEN [context |-> numbered, source_list_html |-> << >>, llm_calls |-> 1,
              result |-> [kind |-> "error", text |-> SynthesisErrorMsg,
                          source_list |-> << >>]]
        ELSE [context |-> numbered, source_list_html |-> numbered, llm_calls |-> 1,
              result |-> [kind |-> "report", text |-> llm.text,
                          source_list |-> numbered]]

(* ---------------------------------------------------------------------- *)
(* State                                                                  *)
(* ---------------------------------------------------------------------- *)
VARIABLES
    mode,                  \* "deep_search" (PlannerAgent) or "deep_research"
    max_sources,           \* kwargs['max_sources']
    webpage_url,           \* kwargs['webpage_url']
    decomp_llm,            \* outcome of the decomposer's model call
    analysis_llm,          \* outcome of the analyzer's model call
    pc,                    \* position in run
    sub_questions,         \* value returned by decompose_question
    strategy,              \* the strategy dict
    i,                     \* index of the current sub-question (from 1)
    first_sub_question,    \* sub_q_kwargs.get('first_sub_question')
    active_agents,
    sources_per_agent,
    sub_question_sources,  \* aggregate of the current deep-research pass
    all_sources,
    calls,                 \* log of the collector runs invoked
    synth_llm_calls,       \* model calls made inside any synthesize
    context,               \* context lines built by the planner's synthesize
    source_list_html,      \* list items built by the planner's synthesize
    synth_llm_ok,          \* whether the planner's synthesis model call returned
    result,                \* run's "result"
    pass_max_sources,      \* sub_q_kwargs['max_sources'] of the current pass
    synth_log,             \* every synthesize invoked: by whom, when, on what
    collector_io,          \* one collector run taken alone: its environment and outcome
    query_io,              \* one query derivation of BaseAgent.run taken alone
    agent_state            \* Agent.run (agent.py): iteration, plan, results, output

vars == <<mode, max_sources, webpage_url, decomp_llm, analysis_llm, pc,
          sub_questions, strategy, i, first_sub_question, active_agents,
          sources_per_agent, sub_question_sources, all_sources, calls,
          synth_llm_calls, context, source_list_html, synth_llm_ok, result,
          pass_max_sources, synth_log, collector_io, query_io, agent_state>>

NoLlm == [ok |-> FALSE, text |-> << >>]
NoStrategy ==
    [use_arxiv |-> FALSE, use_youtube |-> FALSE, use_webpage |-> FALSE,
     complexity |-> "", recency |-> "", reasoning |-> ""]
NoResult == [kind |-> "none", text |-> "", source_list |-> << >>]
NoCollectorIo ==
    [agent |-> "none", env |-> [fault |-> "none", n |-> 0], max_results |-> 0,
     done |-> FALSE, raised |-> FALSE, sources |-> << >>,
     query |-> "", url |-> NoUrl, found |-> NoFound]

NoQueryIo ==
    [agent |-> "none", question |-> << >>, llm |-> << >>, done |-> FALSE,
     llm_calls |-> 0, searches |-> 0, query |-> [by |-> "none", words |-> << >>]]
NoRes == [iteration |-> 0, step |-> 0, kind |-> "none", query_of |-> 0]
NoResults == [query |-> NoRes, papers |-> NoRes]
NoOutput == [kind |-> "none", iteration |-> 0, step |-> 0]
NoSynth ==
    [iteration |-> 0, step |-> 0, placeholder |-> FALSE, papers |-> NoRes,
     returned |-> FALSE]
NoAgentState ==
    [phase |-> "idle", iteration |-> 0, requests |-> 0, plan |-> << >>, step |-> 0,
     results |-> NoResults, output |-> NoOutput, last_synth |-> NoSynth,
     synth_runs |-> 0]

\* replies of the decomposer's model used in whole runs
RunDecompReplies ==
    {<<LB, m, RB>> : m \in {M_L1, M_L2, M_L2dup, M_L2null, M_L0, M_null}}
        \cup {<<X>>, <<X, LB, M_L2, RB, X>>}
RunDecompLlm == {[ok |-> TRUE, text |-> t] : t \in RunDecompReplies} \cup {NoLlm}

\* replies of the analyzer's model used in whole runs
RunAnalysisReplies ==
    {<< >>,
     <<<<"ArXiv", " no">>>>,
     <<<<"YouTube", " no">>>>,
     <<<<"Webpage", " no">>>>,
     <<<<"ArXiv", " no">>, <<"YouTube", " no">>>>,
     <<<<"ArXiv", " maybe">>, <<"YouTube", " no">>, <<"Webpage", " no">>>>}
RunAnalysisLlm == {[ok |-> TRUE, text |-> t] : t \in RunAnalysisReplies} \cup {NoLlm}

Quiet ==
    /\ sub_questions = NullVal
    /\ strategy = NoStrategy
    /\ i = 0
    /\ first_sub_question = None
    /\ active_agents = 0
    /\ sources_per_agent = 0
    /\ sub_question_sources = << >>
    /\ all_sources = << >>
    /\ calls = << >>
    /\ synth_llm_calls = 0
    /\ context = << >>
    /\ source_list_html = << >>
    /\ synth_llm_ok = TRUE
    /\ result = NoResult
    /\ pass_max_sources = 0
    /\ synth_log = << >>

Init ==
    /\ mode \in {"deep_search", "deep_research"}
    /\ max_sources \in MinBudget..MaxBudget
    /\ webpage_url \in {NoUrl, Url}
    /\ decomp_llm \in (IF mode = "deep_research" THEN RunDecompLlm ELSE {NoLlm})
    /\ analysis_llm \in RunAnalysisLlm
    /\ pc = IF mode = "deep_research" THEN "decompose" ELSE "analyze"
    /\ collector_io = NoCollectorIo
    /\ query_io = NoQueryIo
    /\ agent_state = NoAgentState
    /\ Quiet

\* the question of the current pass
sub_question ==
    IF mode = "deep_research" THEN sub_questions.items[i] ELSE user_question

\* the list the current pass extends
aggregate == IF mode = "deep_research" THEN sub_question_sources ELSE all_sources

(* ---------------------------------------------------------------------- *)
(* Actions                                                                *)
(* ---------------------------------------------------------------------- *)
\* run, step 1: decompose, then print len(sub_questions)
Decompose ==
    /\ pc = "decompose"
    /\ sub_questions' = decompose_question(user_question, decomp_llm)
    /\ pc' = IF sub_questions'.kind = "list" THEN "analyze" ELSE "raised"
    /\ UNCHANGED <<pass_max_sources, synth_log, collector_io, query_io, agent_state,
                   mode, max_sources, webpage_url, decomp_llm, analysis_llm,
                   strategy, i, first_sub_question, active_agents,
                   sources_per_agent, sub_question_sources, all_sources, calls,
                   synth_llm_calls, context, source_list_html, synth_llm_ok, result>>

\* run, step 2: the strategy, from the original question
Analyze ==
    /\ pc = "analyze"
    /\ strategy' = analyze_query(webpage_url, analysis_llm)
    /\ i' = 1
    /\ pc' = "plan"
    /\ UNCHANGED <<pass_max_sources, synth_log, collector_io, query_io, agent_state,
                   mode, max_sources, webpage_url, decomp_llm, analysis_llm,
                   sub_questions, first_sub_question, active_agents,
                   sources_per_agent, sub_question_sources, all_sources, calls,
                   synth_llm_calls, context, source_list_html, synth_llm_ok, result>>

\* the head of execute_research_plan for the next question: the kwargs of the
\* pass, the active collectors, the default pair and the per-agent quota
Plan ==
    /\ pc = "plan"
    /\ mode = "deep_research" => i <= Len(sub_questions.items)
    /\ first_sub_question' =
          IF mode = "deep_research" /\ i = 1 THEN sub_question ELSE None
    /\ sub_question_sources' = << >>
    /\ active_agents' = active_agents_of(strategy)
    /\ strategy' = apply_default_pair(strategy)
    /\ pass_max_sources' =
          IF mode = "deep_research"
          THEN sources_per_sq_of(max_sources, Len(sub_questions.items))
          ELSE max_sources
    /\ sources_per_agent' = sources_per_agent_of(pass_max_sources', active_agents')
    /\ pc' = "arxiv"
    /\ UNCHANGED <<synth_log, collector_io, query_io, agent_state,
                   mode, max_sources, webpage_url, decomp_llm, analysis_llm,
                   sub_questions, i, all_sources, calls, synth_llm_calls,
                   context, source_list_html, synth_llm_ok, result>>

\* the for loop of the deep-research run is exhausted
LoopExit ==
    /\ pc = "plan"
    /\ mode = "deep_research"
    /\ i > Len(sub_questions.items)
    /\ pc' = "synthesize"
    /\ UNCHANGED <<pass_max_sources, synth_log, collector_io, query_io, agent_state,
                   mode, max_sources, webpage_url, decomp_llm, analysis_llm,
                   sub_questions, strategy, i, first_sub_question, active_agents,
                   sources_per_agent, sub_question_sources, all_sources, calls,
                   synth_llm_calls, context, source_list_html, synth_llm_ok, result>>

\* one entry of synth_log: who invoked synthesize, at which point of the
\* run, on which sources
Synthesis(caller, sources) ==
    [caller |-> caller, pass |-> i, at |-> pc, sources |-> sources]

synthesis_input_last_pass(all_sources_, sources_for_sub_q) == sources_for_sub_q

\* the argument of the planner's synthesize call: all_sources
synthesis_input(all_sources_, sources_for_sub_q) == all_sources_

Call(agent, max_results, out) ==
    [agent |-> agent, question |-> sub_question, pass |-> i,
     max_results |-> max_results, raised |-> out.raised, n |-> Len(out.sources)]

Collect_first_success(agent, max_results, out, next) ==
    LET r == try_run(out, aggregate)
    IN  /\ calls' = Append(calls, Call(agent, max_results, out))
        /\ IF mode = "deep_research"
           THEN sub_question_sources' = r.sources /\ UNCHANGED all_sources
           ELSE all_sources' = r.sources /\ UNCHANGED sub_question_sources
        /\ pc' = IF out.sources # << >>
                 THEN (IF mode = "deep_research" THEN "pass_end" ELSE "synthesize")
                 ELSE next

\* one guarded collector block of execute_research_plan
Collect(agent, max_results, out, next) ==
    LET r == try_run(out, aggregate)
    IN  /\ calls' = Append(calls, Call(agent, max_results, out))
        /\ IF mode = "deep_research"
           THEN sub_question_sources' = r.sources /\ UNCHANGED all_sources
           ELSE all_sources' = r.sources /\ UNCHANGED sub_question_sources
        /\ pc' = IF r.raised THEN "raised" ELSE next

Skip(next) ==
    /\ pc' = next
    /\ UNCHANGED <<calls, all_sources, sub_question_sources>>

ArxivStep ==
    /\ pc = "arxiv"
    /\ IF strategy.use_arxiv
       THEN \E out \in ArxivRunOutcomes(i, sources_per_agent) :
               Collect("arxiv", sources_per_agent, out, "youtube")
       ELSE Skip("youtube")
    /\ UNCHANGED <<pass_max_sources, synth_log, collector_io, query_io, agent_state,
                   mode, max_sources, webpage_url, decomp_llm, analysis_llm,
                   sub_questions, strategy, i, first_sub_question, active_agents,
                   sources_per_agent, synth_llm_calls, context,
                   source_list_html, synth_llm_ok, result>>

YoutubeStep ==
    /\ pc = "youtube"
    /\ IF strategy.use_youtube
       THEN \E out \in YoutubeRunOutcomes(i, sources_per_agent) :
               Collect("youtube", sources_per_agent, out, "webpage")
       ELSE Skip("webpage")
    /\ UNCHANGED <<pass_max_sources, synth_log, collector_io, query_io, agent_state,
                   mode, max_sources, webpage_url, decomp_llm, analysis_llm,
                   sub_questions, strategy, i, first_sub_question, active_agents,
                   sources_per_agent, synth_llm_calls, context,
                   source_list_html, synth_llm_ok, result>>

\* the third condition exists in the deep-research planner only
webpage_guard ==
    /\ strategy.use_webpage
    /\ bool(webpage_url)
    /\ mode = "deep_research" => sub_question = first_sub_question

\* WebpageAgent.run is given no max_results (0 in the log); when its search
\* returns it synthesizes its own report, which the planner drops
WebpageStep ==
    /\ pc = "webpage"
    /\ LET next == IF mode = "deep_research" THEN "pass_end" ELSE "synthesize"
       IN  IF webpage_guard
           THEN \E out \in WebpageRunOutcomes(i) :
                   /\ Collect("webpage", 0, out, next)
                   /\ synth_llm_calls' =
                         synth_llm_calls + (IF out.raised THEN 0
                                            ELSE synthesize(out.sources, TRUE).llm_calls)
                   /\ synth_log' =
                         IF out.raised THEN synth_log
                         ELSE Append(synth_log, Synthesis("webpage_agent", out.sources))
           ELSE Skip(next) /\ UNCHANGED <<synth_llm_calls, synth_log>>
    /\ UNCHANGED <<pass_max_sources, collector_io, query_io, agent_state,
                   mode, max_sources, webpage_url, decomp_llm, analysis_llm,
                   sub_questions, strategy, i, first_sub_question, active_agents,
                   sources_per_agent, context, source_list_html, synth_llm_ok,
                   result>>

\* back in the deep-research run: all_sources.extend(sources_for_sub_q)
PassEnd ==
    /\ pc = "pass_end"
    /\ all_sources' = extend(all_sources, sub_question_sources)
    /\ i' = i + 1
    /\ pc' = "plan"
    /\ UNCHANGED <<pass_max_sources, synth_log, collector_io, query_io, agent_state,
                   mode, max_sources, webpage_url, decomp_llm, analysis_llm,
                   sub_questions, strategy, first_sub_question, active_agents,
                   sources_per_agent, sub_question_sources, calls,
                   synth_llm_calls, context, source_list_html, synth_llm_ok, result>>

\* synthesizer_agent.synthesize(user_question, all_sources)
Synthesize ==
    /\ pc = "synthesize"
    /\ \E ok \in BOOLEAN :
          LET given == synthesis_input(all_sources, sub_question_sources)
              out == synthesize(given, ok)
          IN  /\ synth_log' = Append(synth_log, Synthesis("planner", given))
              /\ synth_llm_ok' = (IF out.llm_calls = 0 THEN TRUE ELSE ok)
              /\ synth_llm_calls' = synth_llm_calls + out.llm_calls
              /\ context' = out.context
              /\ source_list_html' = out.source_list_html
              /\ result' = out.result
    /\ pc' = "done"
    /\ UNCHANGED <<pass_max_sources, collector_io, query_io, agent_state,
                   mode, max_sources, webpage_url, decomp_llm, analysis_llm,
                   sub_questions, strategy, i, first_sub_question, active_agents,
                   sources_per_agent, sub_question_sources, all_sources, calls>>

Next ==
    \/ Decompose
    \/ Analyze
    \/ Plan
    \/ LoopExit
    \/ ArxivStep
    \/ YoutubeStep
    \/ WebpageStep
    \/ PassEnd
    \/ Synthesize

Spec == Init /\ [][Next]_vars

(* ---------------------------------------------------------------------- *)
(* decompose_question alone, on every reply of at most MaxReplyLen tokens *)
(* ---------------------------------------------------------------------- *)
SeqUpTo(S, n) == UNION {[1..k -> S] : k \in 0..n}

InitDecompose ==
    /\ mode = "deep_research"
    /\ max_sources = MaxBudget
    /\ webpage_url = NoUrl
    /\ decomp_llm \in {[ok |-> TRUE, text |-> t] : t \in SeqUpTo(Tokens, MaxReplyLen)}
                         \cup {NoLlm}
    /\ analysis_llm = NoLlm
    /\ pc = "decompose"
    /\ collector_io = NoCollectorIo
    /\ query_io = NoQueryIo
    /\ agent_state = NoAgentState
    /\ Quiet

NextDecompose == Decompose

SpecDecompose == InitDecompose /\ [][NextDecompose]_vars

(* ---------------------------------------------------------------------- *)
(* analyze_query alone, on every reply of at most MaxLines lines          *)
(* ---------------------------------------------------------------------- *)
InitAnalyze ==
    /\ mode \in {"deep_search", "deep_research"}
    /\ max_sources = MaxBudget
    /\ webpage_url \in {NoUrl, Url}
    /\ decomp_llm = NoLlm
    /\ analysis_llm \in {[ok |-> TRUE, text |-> t] : t \in SeqUpTo(AnalysisLines, MaxLines)}
                           \cup {NoLlm}
    /\ pc = "analyze"
    /\ collector_io = NoCollectorIo
    /\ query_io = NoQueryIo
    /\ agent_state = NoAgentState
    /\ Quiet

NextAnalyze == Analyze

SpecAnalyze == InitAnalyze /\ [][NextAnalyze]_vars

(* ---------------------------------------------------------------------- *)
(* One collector run alone, under every fault of its environment          *)
(* ---------------------------------------------------------------------- *)
CollectorIo(agent, env, max_results) ==
    [agent |-> agent, env |-> env, max_results |-> max_results,
     done |-> FALSE, raised |-> FALSE, sources |-> << >>,
     query |-> "", url |-> NoUrl, found |-> NoFound]

\* a call of WebpageAgent.search on its own
SearchIo(query, url, env) ==
    [CollectorIo("webpage_search", env, 0) EXCEPT !.query = query, !.url = url]

InitCollector ==
    /\ mode = "deep_search"
    /\ max_sources = MaxBudget
    /\ webpage_url = Url
    /\ decomp_llm = NoLlm
    /\ analysis_llm = NoLlm
    /\ pc = "collector"
    /\ query_io = NoQueryIo
    /\ agent_state = NoAgentState
    /\ collector_io \in
          {CollectorIo("arxiv", env, m) : env \in ArxivEnvs, m \in MinBudget..MaxBudget}
          \cup {CollectorIo("youtube", env, m) :
                   env \in YoutubeEnvs, m \in MinBudget..MaxBudget}
          \cup {[CollectorIo("webpage", env, 0) EXCEPT !.query = Url, !.url = Url] :
                   env \in WebpageEnvs}
          \cup {SearchIo(q, u, env) :
                   q \in SearchQueries, u \in {NoUrl, Url}, env \in WebpageEnvs}
    /\ Quiet

\* agent.run(user_question, max_results=..., ...) taken on its own
RunCollector ==
    /\ pc = "collector"
    /\ collector_io.agent \in {"arxiv", "youtube", "webpage"}
    /\ LET c == collector_io
           out == CASE c.agent = "arxiv" -> arxiv_run(1, c.max_results, c.env)
                    [] c.agent = "youtube" -> youtube_run(1, c.max_results, c.env)
                    [] c.agent = "webpage" -> webpage_run(1, c.env)
           found == IF c.agent = "webpage"
                    THEN webpage_search(c.query, c.url, c.env) ELSE NoFound
       IN  collector_io' = [c EXCEPT !.done = TRUE, !.raised = out.raised,
                                     !.sources = out.sources, !.found = found]
    /\ pc' = "collector_done"
    /\ UNCHANGED <<mode, max_sources, webpage_url, decomp_llm, analysis_llm,
                   sub_questions, strategy, i, first_sub_question, active_agents,
                   sources_per_agent, sub_question_sources, all_sources, calls,
                   synth_llm_calls, context, source_list_html, synth_llm_ok, result,
                   pass_max_sources, synth_log, query_io, agent_state>>

\* WebpageAgent.search(query, url=url) taken on its own
SearchWebpage ==
    /\ pc = "collector"
    /\ collector_io.agent = "webpage_search"
    /\ collector_io' =
          [collector_io EXCEPT
              !.found = webpage_search(collector_io.query, collector_io.url,
                                       collector_io.env)]
    /\ pc' = "search_done"
    /\ UNCHANGED <<mode, max_sources, webpage_url, decomp_llm, analysis_llm,
                   sub_questions, strategy, i, first_sub_question, active_agents,
                   sources_per_agent, sub_question_sources, all_sources, calls,
                   synth_llm_calls, context, source_list_html, synth_llm_ok, result,
                   pass_max_sources, synth_log, query_io, agent_state>>

NextCollector == RunCollector \/ SearchWebpage

SpecCollector == InitCollector /\ [][NextCollector]_vars

(* ---------------------------------------------------------------------- *)
(* The synthesizers alone, on every source sequence of at most            *)
(* MaxSynthLen records                                                    *)
(* ---------------------------------------------------------------------- *)
\* records of any collector, in any order
AnySources == {[source_type |-> t, pass |-> 1, idx |-> 1] :
                  t \in {"arxiv", "youtube", "webpage"}}
\* papers as tool_arxiv_search returns them
Papers == {[source_type |-> "paper", pass |-> 0, idx |-> k] : k \in 1..2}
\* what the synthesis model may answer: the report, or a report that brings
\* a source list of its own
SynthReplies == {"report_text", "report_text_with_own_sources"}

InitSynthesize ==
    /\ max_sources = MaxBudget
    /\ webpage_url = NoUrl
    /\ decomp_llm = NoLlm
    /\ analysis_llm = NoLlm
    /\ collector_io = NoCollectorIo
    /\ query_io = NoQueryIo
    /\ agent_state = NoAgentState
    /\ \/ /\ mode \in {"deep_search", "deep_research"}
          /\ pc = "synthesize"
          /\ all_sources \in SeqUpTo(AnySources, MaxSynthLen)
       \/ /\ mode = "agent"
          /\ pc = "tool_synthesis"
          /\ all_sources \in SeqUpTo(Papers, MaxSynthLen)
    /\ sub_questions = NullVal
    /\ strategy = NoStrategy
    /\ i = 0
    /\ first_sub_question = None
    /\ active_agents = 0
    /\ sources_per_agent = 0
    /\ sub_question_sources = << >>
    /\ calls = << >>
    /\ synth_llm_calls = 0
    /\ context = << >>
    /\ source_list_html = << >>
    /\ synth_llm_ok = TRUE
    /\ result = NoResult
    /\ pass_max_sources = 0
    /\ synth_log = << >>

\* tool_synthesis(client, {'original_question': ..., 'papers': all_sources})
ToolSynthesis ==
    /\ pc = "tool_synthesis"
    /\ \E llm \in {[ok |-> TRUE, text |-> t] : t \in SynthReplies}
                     \cup {[ok |-> FALSE, text |-> ""]} :
          LET out == tool_synthesis(all_sources, llm)
          IN  /\ synth_llm_ok' = (IF out.llm_calls = 0 THEN TRUE ELSE llm.ok)
              /\ synth_llm_calls' = synth_llm_calls + out.llm_calls
              /\ context' = out.context
              /\ source_list_html' = out.source_list_html
              /\ result' = out.result
    /\ pc' = "done"
    /\ UNCHANGED <<pass_max_sources, synth_log, collector_io, query_io, agent_state,
                   mode, max_sources, webpage_url, decomp_llm, analysis_llm,
                   sub_questions, strategy, i, first_sub_question, active_agents,
                   sources_per_agent, sub_question_sources, all_sources, calls>>

NextSynthesize == Synthesize \/ ToolSynthesis

SpecSynthesize == InitSynthesize /\ [][NextSynthesize]_vars

(* ---------------------------------------------------------------------- *)
(* BaseAgent.run up to its search call: the query derivation alone, on    *)
(* every question of at most MaxWords words                               *)
(* ---------------------------------------------------------------------- *)
\* the words re.findall cuts out of a question
Vocabulary == {"Graph", "The", "AI"}
\* str.lower() on those words
lower(w) ==
    CASE w = "Graph" -> "graph"
      [] w = "The" -> "the"
      [] w = "AI" -> "ai"
      [] OTHER -> w
\* len() of the lower-cased words
word_len(w) ==
    CASE w = "graph" -> 5
      [] w = "the" -> 3
      [] w = "ai" -> 2
      [] OTHER -> 0
stopwords == {"the", "a", "an", "of", "in", "on", "for", "and", "to", "with", "is",
              "are", "how", "what", "why", "who", "where"}
KeywordLimit == 6

keyword_fallback_all(question) ==
    SelectSeq([k \in 1..Len(question) |-> lower(question[k])],
              LAMBDA w : w \notin stopwords /\ word_len(w) > 2)

\* the except branch of BaseAgent.generate_search_query
keyword_fallback(question) ==
    LET words == [k \in 1..Len(question) |-> lower(question[k])]
        kept == SelectSeq(words, LAMBDA w : w \notin stopwords /\ word_len(w) > 2)
    IN  SubSeq(kept, 1, Min(KeywordLimit, Len(kept)))

\* outcomes of one model call: a text, a reply without text, an exception
QueryLlmOutcomes == {"text", "none", "raises"}

\* BaseAgent.generate_search_query on the outcome of its model call
generate_search_query(question, llm) ==
    CASE llm[1] = "raises" ->
            [by |-> "keywords", words |-> keyword_fallback(question), llm_calls |-> 1]
      [] llm[1] = "none" -> [by |-> "model", words |-> << >>, llm_calls |-> 1]
      [] llm[1] = "text" -> [by |-> "model", words |-> <<"model query">>, llm_calls |-> 1]

\* ArxivAgent.generate_search_query: on an exception it calls the method of
\* the base class, which asks the model again before it extracts keywords
arxiv_generate_search_query(question, llm) ==
    CASE llm[1] = "raises" ->
            LET again == generate_search_query(question, Tail(llm))
            IN  [again EXCEPT !.llm_calls = again.llm_calls + 1]
      [] llm[1] = "none" -> [by |-> "model", words |-> << >>, llm_calls |-> 1]
      [] llm[1] = "text" -> [by |-> "model", words |-> <<"arxiv query">>, llm_calls |-> 1]

QueryIo(agent, question, llm) ==
    [agent |-> agent, question |-> question, llm |-> llm, done |-> FALSE,
     llm_calls |-> 0, searches |-> 0, query |-> [by |-> "none", words |-> << >>]]

InitQuery ==
    /\ mode = "deep_search"
    /\ max_sources = MaxBudget
    /\ webpage_url = NoUrl
    /\ decomp_llm = NoLlm
    /\ analysis_llm = NoLlm
    /\ pc = "query"
    /\ collector_io = NoCollectorIo
    /\ agent_state = NoAgentState
    /\ query_io \in
          {QueryIo("youtube", q, <<l>>) :
              q \in SeqUpTo(Vocabulary, MaxWords), l \in QueryLlmOutcomes}
          \cup {QueryIo("arxiv", q, <<l1, l2>>) :
                   q \in SeqUpTo(Vocabulary, MaxWords),
                   l1 \in QueryLlmOutcomes, l2 \in QueryLlmOutcomes}
    /\ Quiet

\* BaseAgent.run: query = self.generate_search_query(...), then
\* sources = self.search(query, ...)
DeriveQueryAndSearch ==
    /\ pc = "query"
    /\ LET q == IF query_io.agent = "arxiv"
                THEN arxiv_generate_search_query(query_io.question, query_io.llm)
                ELSE generate_search_query(query_io.question, query_io.llm)
       IN  query_io' = [query_io EXCEPT !.done = TRUE,
                                        !.llm_calls = q.llm_calls,
                                        !.searches = 1,
                                        !.query = [by |-> q.by, words |-> q.words]]
    /\ pc' = "query_done"
    /\ UNCHANGED <<mode, max_sources, webpage_url, decomp_llm, analysis_llm,
                   sub_questions, strategy, i, first_sub_question, active_agents,
                   sources_per_agent, sub_question_sources, all_sources, calls,
                   synth_llm_calls, context, source_list_html, synth_llm_ok, result,
                   pass_max_sources, synth_log, collector_io, agent_state>>

NextQuery == DeriveQueryAndSearch

SpecQuery == InitQuery /\ [][NextQuery]_vars

(* ---------------------------------------------------------------------- *)
(* The /research handler of main_multiagent: no planner, the three        *)
(* collectors one after the other, then the synthesizer                   *)
(* ---------------------------------------------------------------------- *)
RequestedLow == -1

\* if max_sources < 1: max_sources = 1 / elif max_sources > 10: max_sources = 10
clamp(m) == IF m < MinBudget THEN MinBudget ELSE IF m > MaxBudget THEN MaxBudget ELSE m

DefaultMaxResults == 5

\* search: max_results = kwargs.get('max_results', 5)
search_max_results(kwargs) ==
    IF "max_results" \in DOMAIN kwargs THEN kwargs.max_results ELSE DefaultMaxResults

\* the keyword arguments the handler gives to arxiv_agent.run and
\* youtube_agent.run
handler_kwargs(m) == [max_sources |-> m]

InitResearch ==
    /\ mode = "all_sources"
    /\ max_sources \in RequestedLow..RequestedHigh
    /\ webpage_url \in {NoUrl, Url}
    /\ decomp_llm = NoLlm
    /\ analysis_llm = NoLlm
    /\ pc = "clamp"
    /\ collector_io = NoCollectorIo
    /\ query_io = NoQueryIo
    /\ agent_state = NoAgentState
    /\ sub_questions = NullVal
    /\ strategy = NoStrategy
    /\ i = 1
    /\ first_sub_question = None
    /\ active_agents = 0
    /\ sources_per_agent = 0
    /\ sub_question_sources = << >>
    /\ all_sources = << >>
    /\ calls = << >>
    /\ synth_llm_calls = 0
    /\ context = << >>
    /\ source_list_html = << >>
    /\ synth_llm_ok = TRUE
    /\ result = NoResult
    /\ pass_max_sources = 0
    /\ synth_log = << >>

HandlerClamp ==
    /\ pc = "clamp"
    /\ max_sources' = clamp(max_sources)
    /\ pc' = "h_arxiv"
    /\ UNCHANGED <<mode, webpage_url, decomp_llm, analysis_llm,
                   sub_questions, strategy, i, first_sub_question, active_agents,
                   sources_per_agent, sub_question_sources, all_sources, calls,
                   synth_llm_calls, context, source_list_html, synth_llm_ok, result,
                   pass_max_sources, synth_log, collector_io, query_io, agent_state>>

HandlerArxiv ==
    /\ pc = "h_arxiv"
    /\ LET m == search_max_results(handler_kwargs(max_sources))
       IN  \E out \in ArxivRunOutcomes(i, m) : Collect("arxiv", m, out, "h_youtube")
    /\ UNCHANGED <<mode, max_sources, webpage_url, decomp_llm, analysis_llm,
                   sub_questions, strategy, i, first_sub_question, active_agents,
                   sources_per_agent, synth_llm_calls, context, source_list_html,
                   synth_llm_ok, result, pass_max_sources, synth_log,
                   collector_io, query_io, agent_state>>

HandlerYoutube ==
    /\ pc = "h_youtube"
    /\ LET m == search_max_results(handler_kwargs(max_sources))
       IN  \E out \in YoutubeRunOutcomes(i, m) : Collect("youtube", m, out, "h_webpage")
    /\ UNCHANGED <<mode, max_sources, webpage_url, decomp_llm, analysis_llm,
                   sub_questions, strategy, i, first_sub_question, active_agents,
                   sources_per_agent, synth_llm_calls, context, source_list_html,
                   synth_llm_ok, result, pass_max_sources, synth_log,
                   collector_io, query_io, agent_state>>

\* if webpage_url and webpage_url.strip(): webpage_agent.run(..., url=...)
HandlerWebpage ==
    /\ pc = "h_webpage"
    /\ IF bool(webpage_url)
       THEN \E out \in WebpageRunOutcomes(i) :
               /\ Collect("webpage", 0, out, "h_synthesize")
               /\ synth_llm_calls' =
                     synth_llm_calls + (IF out.raised THEN 0
                                        ELSE synthesize(out.sources, TRUE).llm_calls)
               /\ synth_log' =
                     IF out.raised THEN synth_log
                     ELSE Append(synth_log, Synthesis("webpage_agent", out.sources))
       ELSE Skip("h_synthesize") /\ UNCHANGED <<synth_llm_calls, synth_log>>
    /\ UNCHANGED <<mode, max_sources, webpage_url, decomp_llm, analysis_llm,
                   sub_questions, strategy, i, first_sub_question, active_agents,
                   sources_per_agent, context, source_list_html, synth_llm_ok,
                   result, pass_max_sources, collector_io, query_io, agent_state>>

\* all_results holds an entry for the paper collector whatever it did, so the
\* handler always gets to synthesizer_agent.synthesize(question, all_sources)
HandlerSynthesize ==
    /\ pc = "h_synthesize"
    /\ \E ok \in BOOLEAN :
          LET out == synthesize(all_sources, ok)
          IN  /\ synth_log' = Append(synth_log, Synthesis("handler", all_sources))
              /\ synth_llm_ok' = (IF out.llm_calls = 0 THEN TRUE ELSE ok)
              /\ synth_llm_calls' = synth_llm_calls + out.llm_calls
              /\ context' = out.context
              /\ source_list_html' = out.source_list_html
              /\ result' = out.result
    /\ pc' = "h_done"
    /\ UNCHANGED <<mode, max_sources, webpage_url, decomp_llm, analysis_llm,
                   sub_questions, strategy, i, first_sub_question, active_agents,
                   sources_per_agent, sub_question_sources, all_sources, calls,
                   pass_max_sources, collector_io, query_io, agent_state>>

NextResearch ==
    \/ HandlerClamp
    \/ HandlerArxiv
    \/ HandlerYoutube
    \/ HandlerWebpage
    \/ HandlerSynthesize

SpecResearch == InitResearch /\ [][NextResearch]_vars

(* ---------------------------------------------------------------------- *)
(* Agent.run (agent.py): up to max_iterations plans, each executed step   *)
(* by step                                                                *)
(* ---------------------------------------------------------------------- *)
\* the steps a plan of the model may hold
StepKinds ==
    {"invalid",                \* a dict without 'tool' or without 'inputs'
     "unknown_tool",
     "query_generator",
     "arxiv_search",           \* with query_keywords
     "arxiv_search_blank",     \* query_keywords blank: takes results['query']
     "synthesis_placeholder",  \* papers == 'PLACEHOLDER': takes results['papers']
     "synthesis_inline"}       \* papers written into the plan by the model
Plans == UNION {[1..k -> StepKinds] : k \in 0..MaxPlanLen}

\* what the model call and _extract_json leave of a reply
PlanReplies ==
    {[kind |-> k, plan |-> << >>] : k \in {"raises", "unparsable", "not_a_list"}}
        \cup {[kind |-> "plan", plan |-> p] : p \in Plans}

\* what a tool call does: "ok", "error_text" (tool_arxiv_search returns an
\* error string), "raises"
ToolOutcomes == {"ok", "error_text", "raises"}

\* return "Agent failed to complete the task within iterations."
FailedOutput == [kind |-> "failed_message", iteration |-> 0, step |-> 0]

\* the for loop over range(1, max_iterations + 1) moves on, or is exhausted;
\* plan and step of the ended iteration are assigned anew before they are
\* read again, results stays as it is until results = {} runs
next_iteration(st) ==
    IF st.iteration + 1 > max_iterations
    THEN [st EXCEPT !.phase = "failed", !.output = FailedOutput]
    ELSE [st EXCEPT !.phase = "request", !.iteration = @ + 1,
                    !.plan = << >>, !.step = 0, !.last_synth = NoSynth]

on_exception_propagate(st) == [st EXCEPT !.phase = "raised"]

\* except Exception as e: the exception of the try block is caught
on_exception(st) == [st EXCEPT !.phase = "except"]

\* break out of the step loop: the try block ends, the next iteration starts
break_plan(st) == next_iteration(st)

keep_results(old) == old

\* results = {}
fresh_results(old) == NoResults

\* the plan request of one iteration
request_plan(st, reply) ==
    LET asked == [st EXCEPT !.requests = @ + 1]
    IN  CASE reply.kind = "raises" -> on_exception(asked)
          [] reply.kind = "unparsable" -> next_iteration(asked)
          [] reply.kind = "not_a_list" -> on_exception(asked)
          [] reply.kind = "plan" ->
                [asked EXCEPT !.phase = "steps", !.plan = reply.plan, !.step = 1,
                              !.results = fresh_results(asked.results)]

\* a synthesis step runs tool_synthesis on papers: an error string in the
\* place of the paper list makes paper['title'] raise
run_synthesis(st, placeholder, papers, out) ==
    LET returns == IF papers.kind = "error_text" THEN FALSE ELSE out # "raises"
        entry == [iteration |-> st.iteration, step |-> st.step,
                  placeholder |-> placeholder, papers |-> papers,
                  returned |-> returns]
        logged == [st EXCEPT !.last_synth = entry, !.synth_runs = @ + 1]
    IN  IF returns
        THEN [logged EXCEPT !.phase = "returned",
                            !.output = [kind |-> "report", iteration |-> st.iteration,
                                        step |-> st.step]]
        ELSE on_exception(logged)

\* an arxiv_search step; query_of is the iteration whose results['query'] the
\* search took, 0 when the plan step holds its own keywords
run_search(st, query_of, out) ==
    IF out = "raises" THEN on_exception(st)
    ELSE [st EXCEPT !.results.papers =
                        [iteration |-> st.iteration, step |-> st.step,
                         kind |-> IF out = "ok" THEN "papers" ELSE "error_text",
                         query_of |-> query_of],
                    !.step = @ + 1]

\* one pass through the body of the step loop
exec_step(st, out) ==
    LET kind == st.plan[st.step]
    IN  CASE kind = "invalid" -> break_plan(st)
          [] kind = "unknown_tool" -> break_plan(st)
          [] kind = "query_generator" ->
                [st EXCEPT !.results.query =
                               [iteration |-> st.iteration, step |-> st.step,
                                kind |-> "query", query_of |-> 0],
                           !.step = @ + 1]
          [] kind = "arxiv_search" -> run_search(st, 0, out)
          [] kind = "arxiv_search_blank" ->
                IF st.results.query.kind = "none" THEN break_plan(st)
                ELSE run_search(st, st.results.query.iteration, out)
          [] kind = "synthesis_placeholder" ->
                IF st.results.papers.kind = "none" THEN break_plan(st)
                ELSE run_synthesis(st, TRUE, st.results.papers, "ok")
          [] kind = "synthesis_inline" ->
                run_synthesis(st, FALSE,
                              [iteration |-> st.iteration, step |-> st.step,
                               kind |-> "inline", query_of |-> 0], out)

InitAgent ==
    /\ mode = "agent"
    /\ max_sources = 5
    /\ webpage_url = NoUrl
    /\ decomp_llm = NoLlm
    /\ analysis_llm = NoLlm
    /\ pc = "agent"
    /\ collector_io = NoCollectorIo
    /\ query_io = NoQueryIo
    /\ agent_state = [NoAgentState EXCEPT !.phase = "request", !.iteration = 1]
    /\ Quiet

\* the head of an iteration: the plan is asked for and parsed
AgentRequestPlan ==
    /\ agent_state.phase = "request"
    /\ \E reply \in PlanReplies : agent_state' = request_plan(agent_state, reply)
    /\ UNCHANGED <<mode, max_sources, webpage_url, decomp_llm, analysis_llm, pc,
                   sub_questions, strategy, i, first_sub_question, active_agents,
                   sources_per_agent, sub_question_sources, all_sources, calls,
                   synth_llm_calls, context, source_list_html, synth_llm_ok, result,
                   pass_max_sources, synth_log, collector_io, query_io>>

\* the next step of the plan, or the end of the plan
AgentStep ==
    /\ agent_state.phase = "steps"
    /\ IF agent_state.step > Len(agent_state.plan)
       THEN agent_state' = next_iteration(agent_state)
       ELSE \E out \in ToolOutcomes : agent_state' = exec_step(agent_state, out)
    /\ UNCHANGED <<mode, max_sources, webpage_url, decomp_llm, analysis_llm, pc,
                   sub_questions, strategy, i, first_sub_question, active_agents,
                   sources_per_agent, sub_question_sources, all_sources, calls,
                   synth_llm_calls, context, source_list_html, synth_llm_ok, result,
                   pass_max_sources, synth_log, collector_io, query_io>>

\* the except block: print(...); continue
AgentExcept ==
    /\ agent_state.phase = "except"
    /\ agent_state' = next_iteration(agent_state)
    /\ UNCHANGED <<mode, max_sources, webpage_url, decomp_llm, analysis_llm, pc,
                   sub_questions, strategy, i, first_sub_question, active_agents,
                   sources_per_agent, sub_question_sources, all_sources, calls,
                   synth_llm_calls, context, source_list_html, synth_llm_ok, result,
                   pass_max_sources, synth_log, collector_io, query_io>>

NextAgent == AgentRequestPlan \/ AgentStep \/ AgentExcept

SpecAgent == InitAgent /\ [][NextAgent]_vars

(* ---------------------------------------------------------------------- *)
(* Properties                                                             *)
(* ---------------------------------------------------------------------- *)
InPass == pc \in {"arxiv", "youtube", "webpage", "pass_end"}

CountOf(srcs, type, pass) ==
    Cardinality({k \in 1..Len(srcs) :
                    srcs[k].source_type = type /\ srcs[k].pass = pass})

\* C1: for a non-empty input of N records of any kinds, the source list the
\* synthesizer renders has exactly N entries, in input order, with ids 1..N.
C1_SourceListDense ==
    (pc = "done" /\ all_sources # << >>) =>
        /\ Len(source_list_html) = Len(all_sources)
        /\ \A k \in 1..Len(source_list_html) :
              /\ source_list_html[k].id = k
              /\ source_list_html[k].source = all_sources[k]

\* the quota of a collector under the computed distribution
quota(enabled) == IF enabled THEN sources_per_agent ELSE 0
QuotaSum ==
    SumSeq(<<quota(strategy.use_arxiv), quota(strategy.use_youtube),
             quota(strategy.use_webpage)>>)

WebpageCalls == SelectSeq(calls, LAMBDA c : c.agent = "webpage")

\* C3: in deep-research mode the webpage collector's run is invoked at most
\* once over all passes, and only in the first sub-question's pass.
C3_WebpageOnlyFirstPass ==
    mode = "deep_research" =>
        /\ Len(WebpageCalls) <= 1
        /\ \A k \in 1..Len(WebpageCalls) : WebpageCalls[k].pass = 1

\* C4: the aggregate of a pass lists paper records, then video records, then
\* webpage records, whatever the collectors returned or however they failed.
C4_AggregatePriorityOrder ==
    \A j, k \in 1..Len(aggregate) :
        j < k => Priority(aggregate[j].source_type) <= Priority(aggregate[k].source_type)

C4_Witness ==
    /\ pc \in {"pass_end", "synthesize"}
    /\ \A t \in {"arxiv", "youtube", "webpage"} :
          \E k \in 1..Len(aggregate) : aggregate[k].source_type = t
    /\ \E k \in 1..Len(calls) : calls[k].raised

\* C5: a collector whose run raises adds no record and does not abort the
\* pass: no run after decomposition ends raised, every record a collector
\* returned is in the sources handed to synthesis, and synthesis is invoked.
C5_FailureContributesNothing ==
    /\ pc = "raised" => calls = << >>
    /\ pc \in {"synthesize", "done"} =>
          \A k \in 1..Len(calls) :
              CountOf(all_sources, calls[k].agent, calls[k].pass)
                  = (IF calls[k].raised THEN 0 ELSE calls[k].n)
    /\ pc = "done" => result # NoResult

C5_Witness ==
    /\ pc = "done"
    /\ mode = "deep_search"
    /\ max_sources = 4
    /\ Len(calls) = 2
    /\ calls[1].agent = "arxiv" /\ calls[1].max_results = 2 /\ calls[1].n = 2
    /\ calls[2].agent = "youtube" /\ calls[2].max_results = 2 /\ calls[2].raised
    /\ Len(all_sources) = 2
    /\ result.kind = "report"
    /\ Len(result.source_list) = 2

\* C6: decompose_question returns a list of 1 to 5 entries, whatever the
\* model replies.
C6_LengthIn1to5 ==
    pc # "decompose" =>
        /\ sub_questions.kind = "list"
        /\ Len(sub_questions.items) \in 1..5

HasToken(text, t) == \E k \in 1..Len(text) : text[k] = t
FirstIndex(text, t) == CHOOSE k \in 1..Len(text) : text[k] = t /\ \A j \in 1..(k - 1) : text[j] # t
LastIndex(text, t) == CHOOSE k \in 1..Len(text) : text[k] = t /\ \A j \in (k + 1)..Len(text) : text[j] # t

\* the model call failed, or the reply holds no "{", no "}", or the text from
\* the first "{" to the last "}" is not a JSON object
ParseFailure(llm) ==
    \/ ~llm.ok
    \/ ~HasToken(llm.text, LB)
    \/ ~HasToken(llm.text, RB)
    \/ ~json_valid(SubSeq(llm.text, FirstIndex(llm.text, LB), LastIndex(llm.text, RB)))

\* C7: on a failed model call or an unparsable reply decompose_question
\* returns exactly [original question] and does not raise.
C7_FallbackToOriginalQuestion ==
    (pc # "decompose" /\ ParseFailure(decomp_llm)) =>
        /\ sub_questions = ListVal(<<user_question>>)
        /\ pc # "raised"

C7_Witness ==
    /\ pc = "analyze"
    /\ decomp_llm.ok
    /\ HasToken(decomp_llm.text, LB)
    /\ ~HasToken(decomp_llm.text, RB)
    /\ sub_questions = ListVal(<<user_question>>)

KnownValues(key) ==
    CASE key \in {"arxiv", "youtube", "webpage"} -> {"yes", "no"}
      [] key = "complexity" -> {"simple", "medium", "complex"}
      [] key = "recency" -> {"low", "medium", "high"}
      [] OTHER -> { }

\* a reply that departs from the requested "key: value" format
Malformed(lines) ==
    \E k \in 1..Len(lines) :
        \/ Len(lines[k]) # 2
        \/ /\ Len(lines[k]) = 2
           /\ strip_lower(lines[k][1]) # "reasoning"
           /\ strip_lower(lines[k][2]) \notin KnownValues(strip_lower(lines[k][1]))

IsDefaultStrategy(st) ==
    /\ st.use_arxiv
    /\ st.use_youtube
    /\ st.use_webpage = bool(webpage_url)
    /\ st.complexity = "medium"
    /\ st.recency = "medium"

\* C8: analyze_query returns the default strategy when the model call
\* raises, and likewise for any malformed reply.
C8_DefaultOnFailureOrMalformed ==
    (pc = "plan" /\ (~analysis_llm.ok \/ Malformed(analysis_llm.text)))
        => IsDefaultStrategy(strategy)

\* C9: synthesize on an empty source sequence returns the fixed message and
\* calls no model, also at the end of a run whose collectors returned nothing.
C9_EmptyShortCircuit ==
    (pc = "done" /\ all_sources = << >>) =>
        /\ result.kind = "no_sources"
        /\ result.text = NoSourcesMsg
        /\ synth_llm_calls = 0

C9_Witness ==
    /\ pc = "done"
    /\ all_sources = << >>
    /\ Len(calls) >= 2
    /\ \E k \in 1..Len(calls) : calls[k].raised
    /\ result.text = NoSourcesMsg

\* C10: when the synthesis model call fails and at least one source was
\* collected, the result still carries every collected source, in order.
C10_SourcesSurviveSynthesisFailure ==
    (pc = "done" /\ ~synth_llm_ok /\ Len(all_sources) >= 1) =>
        /\ result.source_list # << >>
        /\ \A k \in 1..Len(all_sources) :
              \E e \in 1..Len(result.source_list) :
                  result.source_list[e].source = all_sources[k]


\* analyze_query has returned in this run
Analyzed == pc \in {"plan", "arxiv", "youtube", "webpage", "pass_end", "synthesize", "done"}

\* C11: in the deep-research run the strategy is the one analyze_query
\* returned for the original question: no pass changes any of its fields,
\* also when the analyzer enabled no collector.
C11_StrategyUnmodified ==
    (mode = "deep_research" /\ Analyzed)
        => strategy = analyze_query(webpage_url, analysis_llm)

\* C12: in the deep-research run no synthesize is invoked and no synthesis
\* model call is made while the passes run; the synthesizer is invoked exactly
\* once, after the last pass, on the concatenated sources.
C12_SynthesizerOnceAfterLastPass ==
    mode = "deep_research" =>
        /\ (pc = "plan" \/ InPass \/ pc = "synthesize")
              => (synth_log = << >> /\ synth_llm_calls = 0)
        /\ pc = "done" =>
              /\ Len(synth_log) = 1
              /\ synth_log[1].caller = "planner"
              /\ synth_log[1].at = "synthesize"
              /\ synth_log[1].sources = all_sources
              /\ synth_llm_calls <= 1

\* the sources of the planner's own synthesize call
Given == synth_log[Len(synth_log)].sources

\* position of a record inside its pass: collector priority, then rank
Before(r1, r2) ==
    \/ r1.pass < r2.pass
    \/ /\ r1.pass = r2.pass
       /\ \/ Priority(r1.source_type) < Priority(r2.source_type)
          \/ r1.source_type = r2.source_type /\ r1.idx < r2.idx

\* C13: the sequence handed to the synthesizer of the deep-research run is the
\* concatenation of the per-pass aggregates in sub-question order: records of
\* an earlier pass come first, a pass keeps its priority order, and every
\* record a collector returned is there exactly once.
C13_ConcatenationInSubQuestionOrder ==
    (mode = "deep_research" /\ pc = "done") =>
        /\ \A j, k \in 1..Len(Given) : j < k => Before(Given[j], Given[k])
        /\ \A c \in 1..Len(calls) :
              CountOf(Given, calls[c].agent, calls[c].pass)
                  = (IF calls[c].raised THEN 0 ELSE calls[c].n)
        /\ \A k \in 1..Len(Given) :
              \E c \in 1..Len(calls) :
                  /\ calls[c].agent = Given[k].source_type
                  /\ calls[c].pass = Given[k].pass

C13_Witness ==
    /\ mode = "deep_research"
    /\ pc = "done"
    /\ Len(sub_questions.items) = 2
    /\ webpage_url = Url
    /\ \A t \in {"arxiv", "youtube"}, p \in 1..2 : CountOf(Given, t, p) >= 1
    /\ CountOf(Given, "webpage", 1) = 1

\* C14: every pass of the deep-research run works with the max_sources the
\* caller supplied, whatever the number of sub-questions, and derives its
\* per-collector quota from it.
C14_FullBudgetEveryPass ==
    (mode = "deep_research" /\ InPass) =>
        /\ pass_max_sources = max_sources
        /\ sources_per_agent = Max(1, max_sources \div active_agents)

C14_Witness ==
    /\ mode = "deep_research"
    /\ InPass
    /\ Len(sub_questions.items) = 2
    /\ i = 2
    /\ max_sources = 5
    /\ pass_max_sources = 5

\* a pass has run to its end
PassOver ==
    \/ pc = "pass_end"
    \/ mode = "deep_search" /\ pc \in {"synthesize", "done"}

\* C15: when the strategy enables no collector the default pair is forced, so
\* every pass works with at least one enabled collector and invokes the run
\* of at least one collector.
C15_EveryPassInvokesACollector ==
    /\ InPass => count_active(strategy) >= 1
    /\ PassOver => \E k \in 1..Len(calls) : calls[k].pass = i

\* the upstream of the run could not be reached or had nothing to give
UpstreamDown(c) ==
    \/ c.env.fault \in {"client", "network", "parse", "import", "crawl_raises",
                        "crawl_empty"}
    \/ c.agent \in {"arxiv", "youtube"} /\ c.env.n = 0

\* C16: a collector's run never raises, and it returns the empty sequence
\* when its upstream is unreachable or has nothing, at every failure point.
C16_CollectorNeverRaises ==
    collector_io.done =>
        /\ ~collector_io.raised
        /\ UpstreamDown(collector_io) => collector_io.sources = << >>

\* C17: a run of either planner never raises and ends with a result string,
\* the no-sources message when nothing was collected, whatever the model
\* calls and the collectors do.
C17_RunNeverRaises ==
    /\ pc # "raised"
    /\ pc = "done" =>
          /\ result.kind \in {"report", "error", "no_sources"}
          /\ all_sources = << >> => result.text = NoSourcesMsg

\* the first enabled collector in priority order
FirstEnabled ==
    IF strategy.use_arxiv THEN "arxiv"
    ELSE IF strategy.use_youtube THEN "youtube" ELSE "webpage"

C20_EveryRunGetsQuota ==
    \A k \in 1..Len(calls) :
        /\ calls[k].max_results = Max(1, max_sources \div count_active(strategy))
        /\ calls[k].max_results >= 1

\* C20 (amended): the paper and the video collector are run with max(1,
\* budget div activeCount), at least 1 also when the budget is below
\* activeCount; the webpage collector is run with the url and no max_results.
C20_PaperVideoGetQuota ==
    \A k \in 1..Len(calls) :
        IF calls[k].agent = "webpage"
        THEN calls[k].max_results = 0
        ELSE /\ calls[k].max_results = Max(1, max_sources \div count_active(strategy))
             /\ calls[k].max_results >= 1

C20_Witness ==
    /\ max_sources = 1
    /\ count_active(strategy) = 3
    /\ Len(calls) = 3
    /\ calls[1].max_results = 1
    /\ calls[2].max_results = 1
    /\ calls[3].agent = "webpage"

\* an entry of the context or of the list carries the 1-based position of
\* its record in the input
AtItsPosition(entry) ==
    /\ entry.id \in 1..Len(all_sources)
    /\ all_sources[entry.id] = entry.source

\* C18: for every source a synthesizer renders, the number of its context
\* line and the id of its list item are the same number, the 1-based position
\* of the record in the input; the list of the result is the one built from
\* the input, whatever the model answered.
C18_NumbersArePositions ==
    pc = "done" =>
        /\ \A k \in 1..Len(context) : AtItsPosition(context[k])
        /\ \A k \in 1..Len(source_list_html) :
              /\ AtItsPosition(source_list_html[k])
              /\ source_list_html[k].id = context[k].id
        /\ result.kind = "report" =>
              /\ result.source_list = source_list_html
              /\ Len(source_list_html) = Len(context)

C18_Witness ==
    /\ pc = "done"
    /\ mode = "deep_research"
    /\ Len(all_sources) = 3
    /\ all_sources[1].source_type = "webpage"
    /\ all_sources[2].source_type = "youtube"
    /\ all_sources[3].source_type = "arxiv"
    /\ result.kind = "report"
    /\ Len(result.source_list) = 2
    /\ result.source_list[1].id = 2
    /\ context[2].id = 3

\* the lines of the reply whose text before the first ':' is one of keys
KeyLines(keys) ==
    {k \in 1..Len(analysis_llm.text) :
        Len(analysis_llm.text[k]) = 2 /\ analysis_llm.text[k][1] \in keys}
\* the text after the ':' on the last such line
LastRaw(keys) ==
    analysis_llm.text[CHOOSE k \in KeyLines(keys) : \A j \in KeyLines(keys) : j <= k][2]
\* the reply says yes for the key, or does not mention it
SaysYes(keys) == KeyLines(keys) = {} \/ LastRaw(keys) \in {" yes", " Yes "}
\* the tag the reply gives for the key
TagIs(keys, tag) ==
    /\ KeyLines(keys) = {} => tag = "medium"
    /\ (KeyLines(keys) # {} /\ LastRaw(keys) = " high") => tag = "high"
    /\ (KeyLines(keys) # {} /\ LastRaw(keys) = " complex") => tag = "complex"
    /\ (KeyLines(keys) # {} /\ LastRaw(keys) = " Yes ") => tag = "yes"

\* C21 (as stated): the reply is read as "key: value" lines without regard
\* to case and blanks, unknown keys are ignored, missing keys take the
\* default, and each collector is enabled exactly when its value is yes.
C21_EnabledIffYes ==
    (pc = "plan" /\ analysis_llm.ok) =>
        /\ strategy.use_arxiv = SaysYes({"ArXiv", " arxiv"})
        /\ strategy.use_youtube = SaysYes({"YouTube"})
        /\ strategy.use_webpage = SaysYes({"Webpage"})
        /\ TagIs({"Complexity"}, strategy.complexity)
        /\ TagIs({"Recency"}, strategy.recency)

\* C21 (amended): as stated for the paper and the video collector and for
\* the tags; the webpage collector is enabled exactly when its value is yes
\* and a webpage URL was supplied.
C21_ParsedStrategy ==
    (pc = "plan" /\ analysis_llm.ok) =>
        /\ strategy.use_arxiv = SaysYes({"ArXiv", " arxiv"})
        /\ strategy.use_youtube = SaysYes({"YouTube"})
        /\ strategy.use_webpage = (SaysYes({"Webpage"}) /\ webpage_url # NoUrl)
        /\ TagIs({"Complexity"}, strategy.complexity)
        /\ TagIs({"Recency"}, strategy.recency)

C21_Witness ==
    /\ pc = "plan"
    /\ analysis_llm.ok
    /\ analysis_llm.text = <<<<"Note", " no">>, <<"ArXiv", " Yes ">>>>
    /\ webpage_url = NoUrl
    /\ strategy.use_arxiv
    /\ strategy.use_youtube
    /\ ~strategy.use_webpage
    /\ strategy.complexity = "medium"

\* one step of the deep-research run keeps the order decompose, analyze,
\* passes in list order, synthesize, done
RunOrderStep ==
    mode = "deep_research" =>
        /\ pc = "decompose" => (pc' \in {"analyze", "raised"} /\ synth_log' = synth_log)
        /\ pc = "analyze" => (pc' = "plan" /\ i' = 1 /\ calls' = calls)
        /\ pc = "plan" =>
              \/ pc' = "arxiv" /\ i' = i /\ i <= Len(sub_questions.items)
              \/ pc' = "synthesize" /\ i > Len(sub_questions.items)
        /\ pc = "arxiv" => pc' = "youtube"
        /\ pc = "youtube" => pc' = "webpage"
        /\ pc = "webpage" => pc' = "pass_end"
        /\ pc = "pass_end" => (pc' = "plan" /\ i' = i + 1)
        /\ pc = "synthesize" => pc' = "done"
        /\ sub_questions' # sub_questions => pc = "decompose"
        /\ calls' # calls =>
              /\ Len(calls') = Len(calls) + 1
              /\ calls'[Len(calls')].question = sub_questions.items[i]
        /\ synth_log' # synth_log =>
              (pc = "synthesize" /\ i > Len(sub_questions.items))

\* C22: the deep-research run decomposes once, then analyzes once, then runs
\* one pass per sub-question in list order, and a synthesis starts only after
\* the last pass has returned.
C22_RunOrder == [][RunOrderStep]_vars

\* the runs of a collector invoked in a pass
NCalls(agent, pass) ==
    Cardinality({k \in 1..Len(calls) : calls[k].agent = agent /\ calls[k].pass = pass})

\* C23 (as stated): in every pass the run of each enabled collector is
\* invoked exactly once, whatever the earlier collectors did, and the pass is
\* over only after all of them.
C23_EveryEnabledCollectorOnce ==
    PassOver =>
        \A p \in 1..i :
            /\ NCalls("arxiv", p) = Bit(strategy.use_arxiv)
            /\ NCalls("youtube", p) = Bit(strategy.use_youtube)
            /\ NCalls("webpage", p) = Bit(strategy.use_webpage)

\* C23 (amended): in every pass the run of the enabled paper collector and
\* of the enabled video collector is invoked exactly once, whatever the
\* earlier collectors did; the webpage collector's run is invoked at most
\* once in a pass, exactly once in the first pass when it is enabled; no pass
\* is cut short by a collector.
C23_NoShortCircuit ==
    /\ pc = "raised" => calls = << >>
    /\ PassOver =>
          \A p \in 1..i :
              /\ NCalls("arxiv", p) = Bit(strategy.use_arxiv)
              /\ NCalls("youtube", p) = Bit(strategy.use_youtube)
              /\ NCalls("webpage", p) <= Bit(strategy.use_webpage)
              /\ p = 1 => NCalls("webpage", p) = Bit(strategy.use_webpage)

C23_Witness ==
    /\ pc = "pass_end"
    /\ i = 2
    /\ Len(calls) = 5
    /\ calls[1].agent = "arxiv" /\ calls[1].n >= 1
    /\ calls[2].agent = "youtube" /\ calls[2].raised
    /\ calls[3].agent = "webpage" /\ calls[3].pass = 1
    /\ calls[4].agent = "arxiv" /\ calls[4].pass = 2 /\ calls[4].n = 0
    /\ calls[5].agent = "youtube" /\ calls[5].pass = 2 /\ ~calls[5].raised

\* the qualifying words of a question, in order: lower-cased, no stopword,
\* longer than 2 characters
Qualifying(question) ==
    LET idx == {k \in 1..Len(question) : question[k] = "Graph"}
    IN  [k \in 1..Cardinality(idx) |-> "graph"]

PassesDone == i - 1

\* C25: every deep-research run performs at least one pass: one pass per
\* sub-question the decomposer returned, and exactly one pass, on the original
\* question, when the decomposition failed.
C25_AtLeastOnePass ==
    mode = "deep_research" =>
        /\ pc # "raised"
        /\ pc \in {"synthesize", "done"} =>
              /\ PassesDone >= 1
              /\ PassesDone = Len(sub_questions.items)
              /\ ParseFailure(decomp_llm) =>
                    /\ sub_questions.items = <<user_question>>
                    /\ \A k \in 1..Len(calls) :
                          calls[k].question = user_question /\ calls[k].pass = 1

\* C26: in the /research handler max_sources is within 1..10 before any
\* collector runs, and no search of the paper or the video collector asks its
\* source for more results than that clamped budget.
C26_SearchWithinClampedBudget ==
    pc # "clamp" =>
        /\ max_sources \in 1..10
        /\ \A k \in 1..Len(calls) :
              calls[k].agent \in {"arxiv", "youtube"}
                  => calls[k].max_results <= max_sources

\* C27: a strategy returned by analyze_query, from a parsed reply or from
\* the failure branch, enables the webpage collector only if a webpage URL
\* was supplied, and no planner invokes the webpage collector's run without
\* a URL.
C27_WebpageOnlyWithUrl ==
    /\ Analyzed => (strategy.use_webpage => webpage_url # NoUrl)
    /\ \A k \in 1..Len(calls) : calls[k].agent = "webpage" => webpage_url # NoUrl

C27_Witness ==
    /\ pc = "done"
    /\ ~analysis_llm.ok
    /\ webpage_url = NoUrl
    /\ ~strategy.use_webpage
    /\ strategy.use_arxiv
    /\ Len(calls) = 2
    /\ \A k \in 1..Len(calls) : calls[k].agent # "webpage"

\* C28 as stated: Agent.run asks for at most max_iterations plans, never
\* raises, and returns the output of the first synthesis step it executes,
\* or the fixed failure message when no iteration executes a synthesis step.
C28_FirstExecutedSynthesis ==
    LET st == agent_state
    IN  /\ st.requests <= max_iterations
        /\ st.phase # "raised"
        /\ st.phase = "returned" =>
              (st.synth_runs = 1 /\ st.output.kind = "report")
        /\ st.phase = "failed" =>
              (st.synth_runs = 0 /\ st.output = FailedOutput)

\* C28: Agent.run asks for at most max_iterations plans, never raises, and
\* returns the output of the first synthesis step that gives one, or the
\* fixed failure message when no iteration gets a synthesis step to return.
C28_AgentRunTerminates ==
    LET st == agent_state
    IN  /\ st.requests <= max_iterations
        /\ st.phase # "raised"
        /\ st.phase = "returned" =>
              /\ st.last_synth.returned
              /\ st.output.kind = "report"
              /\ st.output.iteration = st.last_synth.iteration
              /\ st.output.step = st.last_synth.step
              /\ st.plan[st.output.step] \in {"synthesis_placeholder", "synthesis_inline"}
        /\ st.phase = "failed" =>
              /\ ~st.last_synth.returned
              /\ st.output = FailedOutput
              /\ st.requests = max_iterations
        /\ st.phase \in {"request", "steps", "except"} =>
              (~st.last_synth.returned /\ st.output = NoOutput)

C28_Witness ==
    /\ agent_state.phase = "failed"
    /\ agent_state.requests = max_iterations
    /\ agent_state.plan = <<"query_generator", "arxiv_search_blank", "synthesis_placeholder">>
    /\ agent_state.last_synth.iteration = max_iterations
    /\ agent_state.last_synth.papers.kind = "error_text"
    /\ agent_state.synth_runs = max_iterations
    /\ agent_state.output = FailedOutput

\* the arxiv_search steps of a plan before a step
SearchesBefore(plan, step) ==
    {k \in 1..(step - 1) : plan[k] \in {"arxiv_search", "arxiv_search_blank"}}

\* C29: a synthesis step with the PLACEHOLDER runs only after an arxiv_search
\* step of the same plan has stored its result, gets exactly the result of
\* the latest such step, and no step takes a query or papers stored in an
\* earlier iteration.
C29_PlaceholderFromSamePlan ==
    LET e == agent_state.last_synth
        papers == agent_state.results.papers
    IN  /\ papers.kind # "none" => papers.query_of \in {0, papers.iteration}
        /\ e.placeholder =>
            /\ agent_state.plan[e.step] = "synthesis_placeholder"
            /\ e.papers.kind \in {"papers", "error_text"}
            /\ e.papers.iteration = e.iteration
            /\ e.papers.step \in SearchesBefore(agent_state.plan, e.step)
            /\ \A j \in SearchesBefore(agent_state.plan, e.step) : j <= e.papers.step

C29_Witness ==
    /\ agent_state.phase = "returned"
    /\ agent_state.iteration = 2
    /\ agent_state.plan = <<"arxiv_search", "arxiv_search", "synthesis_placeholder">>
    /\ agent_state.last_synth.placeholder
    /\ agent_state.last_synth.papers.iteration = 2
    /\ agent_state.last_synth.papers.step = 2
    /\ agent_state.last_synth.papers.kind = "papers"

\* the URL a call of WebpageAgent.search is given, NoUrl when it is given none
GivenUrl(c) ==
    IF c.url # NoUrl THEN c.url
    ELSE IF c.query \in UrlLike THEN c.query ELSE NoUrl

\* C30: a call of WebpageAgent.search that is given a URL and returns gives
\* exactly one record, with that URL as link and source_type 'webpage', and
\* with a placeholder content when the crawler is unavailable or nothing
\* readable was extracted; a run of the webpage collector that returns then
\* contributes exactly one webpage record.
C30_OneRecordPerUrl ==
    LET c == collector_io
        f == c.found
    IN  /\ (f.asked /\ GivenUrl(c) # NoUrl /\ ~f.raised) =>
              /\ Len(f.records) = 1
              /\ f.records[1].link = GivenUrl(c)
              /\ f.records[1].source_type = "webpage"
              /\ c.env.fault = "import" => f.records[1].content = Unavailable
              /\ (c.env.fault # "import" /\ (c.env.fault = "crawl_empty" \/ c.env.n = 0))
                     => f.records[1].content = Unreadable
        /\ (c.agent = "webpage" /\ c.done /\ ~c.raised) =>
              /\ Len(c.sources) = 1
              /\ c.sources[1].source_type = "webpage"

C30_Witness ==
    /\ pc = "collector_done"
    /\ collector_io.agent = "webpage"
    /\ collector_io.env.fault = "import"
    /\ ~collector_io.raised
    /\ Len(collector_io.found.records) = 1
    /\ collector_io.found.records[1].content = Unavailable
    /\ collector_io.found.records[1].link = Url
    /\ Len(collector_io.sources) = 1

============================================================================
